---- MODULE Spec2Model ----
(***************************************************************************)
(* The cart store of the storefront (cart.js): one localStorage slot       *)
(* holding the JSON text of the cart, the operations that read and write   *)
(* it, and the "cart:updated" event every write dispatches.                *)
(***************************************************************************)
EXTENDS Integers, Sequences, FiniteSets, TLC

\* ------------------------------------------------------------------ bounds
MaxQty == 3      \* largest quantity a line may reach
MaxAdd == 2      \* largest amount passed to addToCart
MaxLen == 2      \* longest sequence handed directly to saveCart
Products == {"A", "B"}

\* --------------------------------------------------------------- JS values
\* A JavaScript value: t is its type tag, items the elements of an array,
\* n the value of a number.
Val(t, items, n) == [t |-> t, items |-> items, n |-> n]
NullV == Val("null", << >>, 0)
UndefinedV == Val("undefined", << >>, 0)
NaNV == Val("nan", << >>, 0)
ObjectV == Val("object", << >>, 0)
TrueV == Val("true", << >>, 0)
FalseV == Val("false", << >>, 0)
EmptyStrV == Val("emptystr", << >>, 0)
StringV == Val("string", << >>, 0)
NumberV(n) == Val("number", << >>, n)
ArrayV(items) == Val("array", items, 0)

\* Elements of a stored array: a cart line {id, qty}, a null, or a bare number.
Line(id, qty) == [t |-> "line", id |-> id, qty |-> qty]
NullEntry == [t |-> "null", id |-> "", qty |-> 0]
NumEntry == [t |-> "num", id |-> "", qty |-> 0]
\* A line whose qty is NaN (in memory) and the {id, qty: null} it is stored as.
NaNLine(id) == [t |-> "nanqty", id |-> id, qty |-> 0]
NullQtyLine(id) == [t |-> "nullqty", id |-> id, qty |-> 0]

\* An argument passed for a quantity: an integer, nothing (undefined), null,
\* a non-numeric string ("abc") or a numeric string ("2").
QArg(t, n) == [t |-> t, n |-> n]
Missing == QArg("undefined", 0)

\* ------------------------------------------------------------ storage slot
\* The content of localStorage[KEY]: absent, text that is not JSON, or the
\* JSON text of a value.
Absent == [kind |-> "absent", v |-> NullV]
Unparsable == [kind |-> "unparsable", v |-> NullV]
Json(v) == [kind |-> "json", v |-> v]

VARIABLES slot, last, prev, app, badge, view, hist, stack, other
vars == <<slot, last, prev, app, badge, view, hist, stack, other>>

\* JSON.parse(localStorage.getItem(KEY)): getItem gives null for an absent
\* key and JSON.parse(null) is null; text that is not JSON throws.
JSONparse(s) ==
  IF s.kind = "unparsable" THEN [threw |-> TRUE, v |-> UndefinedV]
  ELSE IF s.kind = "absent" THEN [threw |-> FALSE, v |-> NullV]
  ELSE [threw |-> FALSE, v |-> s.v]

\* JSON.stringify(items) of an array of lines, nulls and numbers: a NaN is
\* written as null.
JSONstringify(v) ==
  Json([v EXCEPT !.items =
          [i \in 1..Len(v.items) |->
             IF v.items[i].t = "nanqty" THEN NullQtyLine(v.items[i].id)
             ELSE v.items[i]]])

\* JavaScript falsiness, as `||` tests it.
Falsy(v) ==
  \/ v.t \in {"null", "undefined", "nan", "false", "emptystr"}
  \/ v.t = "number" /\ v.n = 0

\* Mutation: the cart is read under a key nothing is stored under.
getCartWrongKey(s) == [t |-> "array", items |-> << >>, n |-> 0]

\* getCart(): JSON.parse(...) || [], [] when the parse throws.
getCart(s) ==
  LET r == JSONparse(s)
  IN IF r.threw THEN ArrayV(<< >>)
     ELSE IF Falsy(r.v) THEN ArrayV(<< >>)
     ELSE r.v

\* The elements of the cart read from slot s (none when it is not an array).
LinesOf(s) == IF getCart(s).t = "array" THEN getCart(s).items ELSE << >>

\* ------------------------------------------------------ array callbacks
\* i => i.id === productId : true of a line with that id; a bare number has
\* no id; reading .id of null throws.
Matches(e, p) == e.t \in {"line", "nullqty", "nanqty"} /\ e.id = p

IsNull(e) == e.t = "null"

\* Index of the first null element, 0 when there is none.
FirstNull(items) ==
  IF \E i \in 1..Len(items) : IsNull(items[i])
  THEN CHOOSE i \in 1..Len(items) :
         IsNull(items[i]) /\ \A j \in 1..(i - 1) : ~IsNull(items[j])
  ELSE 0

\* Index of the first line with id p, 0 when there is none.
FirstMatch(items, p) ==
  IF \E i \in 1..Len(items) : Matches(items[i], p)
  THEN CHOOSE i \in 1..Len(items) :
         Matches(items[i], p) /\ \A j \in 1..(i - 1) : ~Matches(items[j], p)
  ELSE 0

\* items.find(i => i.id === productId) stops at the first match, so it throws
\* only on a null met before one.
FindThrows(items, p) ==
  /\ FirstNull(items) # 0
  /\ FirstMatch(items, p) = 0 \/ FirstNull(items) < FirstMatch(items, p)

\* filter and reduce visit every element.
VisitThrows(items) == FirstNull(items) # 0

\* Mutation: the lines are counted instead of their quantities added.
SumQtyCountsLines(items) == Len(items)

RECURSIVE SumQty(_)
SumQty(items) ==
  IF items = << >> THEN 0 ELSE Head(items).qty + SumQty(Tail(items))

\* ------------------------------------------------------------- outcomes
\* What one call does: the slot it leaves, whether it raised, what it
\* returned, how many setItem calls and how many events it made, and the
\* slot content a listener of its event found (NotSeen without an event).
NotSeen == [kind |-> "none", v |-> NullV]
Out(s, threw, ret, writes, events) ==
  [slot |-> s, threw |-> threw, ret |-> ret, writes |-> writes,
   events |-> events, seen |-> IF events = 0 THEN NotSeen ELSE s]
Throw(s) == Out(s, TRUE, UndefinedV, 0, 0)

\* Mutation: the event is dispatched before setItem.
saveCartDispatchesFirst(s, items, fail) ==
  IF fail THEN [Out(s, TRUE, UndefinedV, 1, 1) EXCEPT !.seen = s]
  ELSE [Out(JSONstringify(ArrayV(items)), FALSE, UndefinedV, 1, 1) EXCEPT !.seen = s]

\* saveCart(items): setItem, then dispatchEvent.  A setItem the storage
\* rejects throws before the event is dispatched.
saveCartOut(s, items, fail) ==
  IF fail THEN Out(s, TRUE, UndefinedV, 1, 0)
  ELSE Out(JSONstringify(ArrayV(items)), FALSE, UndefinedV, 1, 1)

getCartOut(s) == Out(s, FALSE, getCart(s), 0, 0)

\* getCart().reduce((sum, i) => sum + i.qty, 0)
getCartCountOut(s) ==
  LET v == getCart(s)
  IN IF v.t # "array" THEN Throw(s)
     ELSE IF VisitThrows(v.items) THEN Throw(s)
     ELSE IF \E i \in 1..Len(v.items) : v.items[i].t = "num"
          THEN Out(s, FALSE, NaNV, 0, 0)
     ELSE Out(s, FALSE, NumberV(SumQty(v.items)), 0, 0)

\* qty = 1 : the default applies when the argument is undefined.
DefaultQty(arg) == IF arg.t = "undefined" THEN 1 ELSE arg.n

\* Mutation: the found line's quantity is overwritten instead of increased.
MergeOverwrites(items, p, qty) ==
  LET i == FirstMatch(items, p)
  IN IF i # 0 THEN [items EXCEPT ![i] = Line(@.id, qty)]
     ELSE Append(items, Line(p, qty))

\* if (found) found.qty += qty; else items.push({ id: productId, qty });
Merge(items, p, qty) ==
  LET i == FirstMatch(items, p)
  IN IF i # 0 THEN [items EXCEPT ![i] = Line(@.id, @.qty + qty)]
     ELSE Append(items, Line(p, qty))

addToCartOut(s, p, arg, fail) ==
  LET v == getCart(s)
  IN IF v.t # "array" THEN Throw(s)
     ELSE IF FindThrows(v.items, p) THEN Throw(s)
     ELSE saveCartOut(s, Merge(v.items, p, DefaultQty(arg)), fail)

\* Mutation: the filter keeps the matching line and drops the others.
FilterKeepsMatch(items, p) == SelectSeq(items, LAMBDA e : Matches(e, p))

\* getCart().filter(i => i.id !== productId)
Filter(items, p) == SelectSeq(items, LAMBDA e : ~Matches(e, p))

removeFromCartOut(s, p, fail) ==
  LET v == getCart(s)
  IN IF v.t # "array" THEN Throw(s)
     ELSE IF VisitThrows(v.items) THEN Throw(s)
     ELSE saveCartOut(s, Filter(v.items, p), fail)

\* Number(qty): NaN for undefined and for a non-numeric string, 0 for null.
ToNumber(arg) ==
  [nan |-> arg.t \in {"undefined", "text"},
   n |-> IF arg.t \in {"num", "numstr"} THEN arg.n ELSE 0]

\* Mutation: the floor is 0 instead of 1.
ClampQtyFloorZero(arg) ==
  LET x == ToNumber(arg)
      y == IF x.nan THEN 0 ELSE x.n
  IN IF y > 0 THEN y ELSE 0

\* Math.max(1, Number(qty) || 1)
ClampQty(arg) ==
  LET x == ToNumber(arg)
      y == IF x.nan \/ x.n = 0 THEN 1 ELSE x.n
  IN IF y > 1 THEN y ELSE 1

\* Mutation: saveCart is called whether or not a line was found.
setCartQtyAlwaysSaves(s, p, arg, fail) ==
  LET v == getCart(s)
  IN IF v.t # "array" THEN Throw(s)
     ELSE IF FindThrows(v.items, p) THEN Throw(s)
     ELSE LET i == FirstMatch(v.items, p)
          IN IF i # 0
             THEN saveCartOut(s, [v.items EXCEPT ![i] = Line(@.id, ClampQty(arg))], fail)
             ELSE saveCartOut(s, v.items, fail)

setCartQtyOut(s, p, arg, fail) ==
  LET v == getCart(s)
  IN IF v.t # "array" THEN Throw(s)
     ELSE IF FindThrows(v.items, p) THEN Throw(s)
     ELSE LET i == FirstMatch(v.items, p)
          IN IF i # 0
             THEN saveCartOut(s, [v.items EXCEPT ![i] = Line(@.id, ClampQty(arg))], fail)
             ELSE Out(s, FALSE, UndefinedV, 0, 0)

\* Mutation: the cart read from the slot is saved back instead of [].
clearCartSavesCurrent(s, fail) == saveCartOut(s, LinesOf(s), fail)

clearCartOut(s, fail) == saveCartOut(s, << >>, fail)

\* ---------------------------------------------------------------- inputs
AddArgs == {QArg("num", n) : n \in (-1)..MaxAdd} \cup {Missing}
SetArgs ==
  {QArg("num", n) : n \in (-1)..MaxQty}
    \cup {Missing, QArg("null", 0), QArg("text", 0), QArg("numstr", 2)}

\* Sequences of lines a caller may hand to saveCart.
SaveLines == {Line("A", 1), Line("A", 2), Line("B", 1), NaNLine("A")}
SaveSeqs == UNION {[1..n -> SaveLines] : n \in 0..MaxLen}

\* Contents the slot may have when a page loads: nothing, or whatever was
\* stored under the key before.
CorruptSlots ==
  {Unparsable, Json(NullV), Json(FalseV), Json(TrueV), Json(NumberV(0)),
   Json(NumberV(5)), Json(EmptyStrV), Json(StringV), Json(ObjectV),
   Json(ArrayV(<<NullEntry>>)), Json(ArrayV(<<NumEntry>>)),
   Json(ArrayV(<<Line("A", 1), NullEntry>>)),
   Json(ArrayV(<<NullEntry, Line("A", 1)>>))}
InitSlots ==
  {Absent, Json(ArrayV(<< >>)), Json(ArrayV(<<Line("A", 1)>>)),
   Json(ArrayV(<<Line("B", 2), Line("A", 1)>>))} \cup CorruptSlots

\* ---------------------------------------------------------------- history
\* last: the call made last, with its arguments, the slot it found and its
\* outcome.  prev: which operation, on which product, was called before it.
Call(op, id, arg, items, fail, pre, o) ==
  [op |-> op, id |-> id, arg |-> arg, items |-> items, fail |-> fail,
   pre |-> pre, threw |-> o.threw, ret |-> o.ret,
   writes |-> o.writes, events |-> o.events, seen |-> o.seen]
NoCall(s) == Call("none", "", Missing, << >>, FALSE, s, Out(s, FALSE, UndefinedV, 0, 0))
Before(c) == [op |-> c.op, id |-> c.id]

Do(op, id, arg, items, fail, o) ==
  /\ slot' = o.slot
  /\ last' = Call(op, id, arg, items, fail, slot, o)
  /\ prev' = Before(last)

\* Quantities stay within the bound.
InRange(s) ==
  LET v == getCart(s)
  IN v.t = "array" =>
       \A i \in 1..Len(v.items) :
         v.items[i].qty >= -1 /\ v.items[i].qty <= MaxQty

\* ---------------------------------------------------------------- actions
GetCart == Do("getCart", "", Missing, << >>, FALSE, getCartOut(slot))

GetCartCount == Do("getCartCount", "", Missing, << >>, FALSE, getCartCountOut(slot))

AddToCart(fails) ==
  \E p \in Products, arg \in AddArgs, fail \in fails :
    LET o == addToCartOut(slot, p, arg, fail)
    IN InRange(o.slot) /\ Do("addToCart", p, arg, << >>, fail, o)

SetCartQty(fails) ==
  \E p \in Products, arg \in SetArgs, fail \in fails :
    LET o == setCartQtyOut(slot, p, arg, fail)
    IN InRange(o.slot) /\ Do("setCartQty", p, arg, << >>, fail, o)

RemoveFromCart(fails) ==
  \E p \in Products, fail \in fails :
    Do("removeFromCart", p, Missing, << >>, fail, removeFromCartOut(slot, p, fail))

ClearCart(fails) ==
  \E fail \in fails :
    Do("clearCart", "", Missing, << >>, fail, clearCartOut(slot, fail))

SaveCart(fails) ==
  \E items \in SaveSeqs, fail \in fails :
    Do("saveCart", "", Missing, items, fail, saveCartOut(slot, items, fail))

\* --------------------------------------------------------- specifications
\* The store module on its own: no page script is loaded, so nothing listens
\* to "cart:updated" and nothing is rendered.
NoCatalog == [ids |-> {}, price |-> [p \in Products |-> 0]]
NoApp == [page |-> "none", listening |-> FALSE, byId |-> NoCatalog,
          items |-> NullV, stage |-> "none", placed |-> FALSE, error |-> FALSE,
          ev |-> [kind |-> "none", id |-> ""], bound |-> FALSE, fetches |-> 0,
          product |-> "", disabled |-> FALSE]
NoBadge == [text |-> UndefinedV, hidden |-> FALSE]
Blank == [neg |-> FALSE, whole |-> 0, frac |-> 0]
NoView ==
  [state |-> "none", lines |-> << >>, subtotal |-> Blank, tax |-> Blank, total |-> Blank]
NoHist == [first |-> << >>, since |-> << >>]
\* The other tab of the browser, when there is one: its number and its page.
NoOther == [tab |-> 0, app |-> NoApp, badge |-> NoBadge, view |-> NoView]
pagevars == <<app, badge, view, hist, stack, other>>

StoreOnly ==
  /\ app = NoApp
  /\ badge = NoBadge
  /\ view = NoView
  /\ hist = NoHist
  /\ stack = << >>
  /\ other = NoOther

Init ==
  /\ slot \in InitSlots
  /\ last = NoCall(slot)
  /\ prev = Before(NoCall(slot))
  /\ StoreOnly

\* The store's operations over a storage that accepts every write.
Next ==
  /\ \/ GetCart
     \/ GetCartCount
     \/ AddToCart({FALSE})
     \/ SetCartQty({FALSE})
     \/ RemoveFromCart({FALSE})
     \/ ClearCart({FALSE})
  /\ UNCHANGED pagevars

Spec == Init /\ [][Next]_vars

\* The same operations from a browser that has never stored a cart.
InitEmpty ==
  /\ slot = Absent
  /\ last = NoCall(slot)
  /\ prev = Before(NoCall(slot))
  /\ StoreOnly

StoreSpec == InitEmpty /\ [][Next]_vars

\* The store with callers that also write through saveCart directly.
NextRaw ==
  \/ Next
  \/ SaveCart({FALSE}) /\ UNCHANGED pagevars

RawSpec == InitEmpty /\ [][NextRaw]_vars

\* The store over a storage that may reject a write (quota exceeded,
\* storage disabled).
NextFault ==
  /\ \/ GetCart
     \/ GetCartCount
     \/ AddToCart(BOOLEAN)
     \/ SetCartQty(BOOLEAN)
     \/ RemoveFromCart(BOOLEAN)
     \/ ClearCart(BOOLEAN)
  /\ UNCHANGED pagevars

FaultSpec == InitEmpty /\ [][NextFault]_vars

\* Direct writes and reads only, from any slot content.
NextSave ==
  /\ \/ SaveCart({FALSE})
     \/ GetCart
  /\ UNCHANGED pagevars

SaveSpec == Init /\ [][NextSave]_vars

\* ------------------------------------------------------------------ pages
\* The catalog snapshot a page fetched: the ids it holds and their prices,
\* in cents.
Catalog(ids, price) == [ids |-> ids, price |-> price]
Prices == [p \in Products |-> IF p = "A" THEN 1999 ELSE 500]
Catalogs == {Catalog(Products, Prices), Catalog({"A"}, Prices)}

\* The last thing the user did on the page.
Ev(kind, id) == [kind |-> kind, id |-> id]
\* A page after its boot function returned or reached its await: the listener
\* is registered; bound tells whether the page's own handlers are; fetches
\* counts the catalog requests the page has made.
App(page, items, stage, bound, fetches) ==
  [page |-> page, listening |-> TRUE, byId |-> NoCatalog, items |-> items,
   stage |-> stage, placed |-> FALSE, error |-> FALSE, ev |-> Ev("load", ""),
   bound |-> bound, fetches |-> fetches, product |-> "", disabled |-> FALSE]

\* Mutation: the badge is hidden only below zero.
updateCartBadgeHidesBelowZero(count) ==
  [text |-> count, hidden |-> count.t = "number" /\ count.n < 0]

\* updateCartBadge(count): textContent = String(count); hidden = count <= 0
\* (false for NaN).
updateCartBadge(count) ==
  [text |-> count, hidden |-> count.t = "number" /\ count.n <= 0]

\* Mutation: the listener leaves the badge as it is.
OnCartUpdatedIgnores(b, s) == b

\* The "cart:updated" listener: updateCartBadge(getCartCount()).  An
\* exception inside a listener does not reach the dispatcher.
OnCartUpdated(b, s) ==
  LET c == getCartCountOut(s)
  IN IF c.threw THEN b ELSE updateCartBadge(c.ret)

\* Mutation: the other tab hears of the write and sets its badge.
OtherTabHearsStorage(o) ==
  IF other.tab = 0 \/ o.events = 0 THEN other
  ELSE [other EXCEPT !.badge = OnCartUpdated(other.badge, o.slot)]

\* The other tab after a call with outcome o in this tab: dispatchEvent
\* reaches the listeners of this tab's window, and no page listens to
\* "storage".
OtherTab(o) == other

\* The badge after a call with outcome o: listeners run inside dispatchEvent.
Listener(b, o) ==
  IF app.listening /\ o.events = 1 THEN OnCartUpdated(b, o.seen) ELSE b

\* Mutation: the line total is the unit price.
ItemForgetsQty(id, qty, price) ==
  [id |-> id, qty |-> qty, price |-> price, lineTotal |-> price, value |-> qty]

\* One projected line: { id, qty, price, lineTotal: p.price * qty };
\* value is what the quantity input of the line holds.
Item(id, qty, price) ==
  [id |-> id, qty |-> qty, price |-> price, lineTotal |-> price * qty, value |-> qty]

\* Mutation: each item is put in front of the ones before it.
ProjectNewestFirst(items, byId) ==
  LET kept == SelectSeq(items, LAMBDA e : e.t # "num" /\ e.id \in byId.ids)
  IN [k \in 1..Len(kept) |->
        Item(kept[Len(kept) + 1 - k].id, kept[Len(kept) + 1 - k].qty,
             byId.price[kept[Len(kept) + 1 - k].id])]

\* items.map(({ id, qty }) => byId.get(id) ? {...} : null).filter(Boolean)
RECURSIVE Project(_, _)
Project(items, byId) ==
  IF items = << >> THEN << >>
  ELSE LET e == Head(items)
       IN IF e.t # "num" /\ e.id \in byId.ids
          THEN <<Item(e.id, e.qty, byId.price[e.id])>> \o Project(Tail(items), byId)
          ELSE Project(Tail(items), byId)

\* enrichLines(): getCart().map(...).filter(Boolean); map throws on a value
\* that is not an array and on a null element.
enrichLines(s, byId) ==
  LET v == getCart(s)
  IN IF v.t # "array" \/ VisitThrows(v.items)
     THEN [threw |-> TRUE, lines |-> << >>]
     ELSE [threw |-> FALSE, lines |-> Project(v.items, byId)]

\* USD.format(x) of x cents: sign, dollars and two fractional digits.
USDformat(c) ==
  LET a == IF c < 0 THEN -c ELSE c
  IN [neg |-> c < 0, whole |-> a \div 100, frac |-> a % 100]

\* Mutation: the reducer returns the line total without the accumulator.
SubtotalLastOnly(lines) ==
  IF lines = << >> THEN 0 ELSE lines[Len(lines)].lineTotal

\* lines.reduce((s, l) => s + l.lineTotal, 0)
RECURSIVE Subtotal(_)
Subtotal(lines) ==
  IF lines = << >> THEN 0 ELSE Head(lines).lineTotal + Subtotal(Tail(lines))

Tax == 0

\* What render() and the checkout summary write: the list and the totals.
View(state, lines, subtotal, tax, total) ==
  [state |-> state, lines |-> lines, subtotal |-> USDformat(subtotal),
   tax |-> USDformat(tax), total |-> USDformat(total)]
EmptyView == View("empty", << >>, 0, 0, 0)
Summary(lines) ==
  View("lines", lines, Subtotal(lines), Tax, Subtotal(lines) + Tax)

\* Mutation: the branch for an empty list is missing.
renderNeverEmpty(v, s, byId) ==
  LET r == enrichLines(s, byId)
  IN IF r.threw THEN v ELSE Summary(r.lines)

\* render() of the cart page; v stays when enrichLines throws.
render(v, s, byId) ==
  LET r == enrichLines(s, byId)
  IN IF r.threw THEN v
     ELSE IF r.lines = << >> THEN EmptyView
     ELSE Summary(r.lines)

\* Mutation: the sign of delta is wrong.
NextQtySignError(value, delta) ==
  IF value - delta > 1 THEN value - delta ELSE 1

\* Math.max(1, parseInt(qtyInput.value || "1", 10) + delta)
NextQty(value, delta) ==
  IF value + delta > 1 THEN value + delta ELSE 1

\* Math.max(1, parseInt(input.value || "1", 10)) of what was typed.
TypedQty(typed) ==
  LET n == IF typed.t = "empty" THEN 1 ELSE typed.n
  IN IF n > 1 THEN n ELSE 1
Typed == {QArg("empty", 0)} \cup {QArg("num", n) : n \in (-1)..MaxQty}

\* -------- cart page
\* click on + or - of a rendered line
CartClickQty ==
  /\ app.page = "cart" /\ app.bound /\ view.state = "lines"
  /\ \E i \in 1..Len(view.lines), delta \in {-1, 1} :
       LET id == view.lines[i].id
           next == NextQty(view.lines[i].value, delta)
           o == setCartQtyOut(slot, id, QArg("num", next), FALSE)
           typed == [view EXCEPT !.lines[i].value = next]
       IN /\ InRange(o.slot)
          /\ Do("setCartQty", id, QArg("num", next), << >>, FALSE, o)
          /\ other' = OtherTab(o)
          /\ badge' = Listener(badge, o)
          /\ view' = IF o.threw THEN typed ELSE render(typed, o.slot, app.byId)
          /\ app' = [app EXCEPT !.ev = Ev(IF delta = 1 THEN "plus" ELSE "minus", id)]
  /\ UNCHANGED <<hist, stack>>

\* typing into the quantity input of a rendered line
CartInputQty ==
  /\ app.page = "cart" /\ app.bound /\ view.state = "lines"
  /\ \E i \in 1..Len(view.lines), typed \in Typed :
       LET id == view.lines[i].id
           next == TypedQty(typed)
           o == setCartQtyOut(slot, id, QArg("num", next), FALSE)
       IN /\ InRange(o.slot)
          /\ Do("setCartQty", id, QArg("num", next), << >>, FALSE, o)
          /\ other' = OtherTab(o)
          /\ badge' = Listener(badge, o)
          /\ view' = IF o.threw THEN view ELSE render(view, o.slot, app.byId)
          /\ app' = [app EXCEPT !.ev = Ev("input", id)]
  /\ UNCHANGED <<hist, stack>>

\* click on Remove of a rendered line
CartClickRemove ==
  /\ app.page = "cart" /\ app.bound /\ view.state = "lines"
  /\ \E i \in 1..Len(view.lines) :
       LET id == view.lines[i].id
           o == removeFromCartOut(slot, id, FALSE)
       IN /\ Do("removeFromCart", id, Missing, << >>, FALSE, o)
          /\ other' = OtherTab(o)
          /\ badge' = Listener(badge, o)
          /\ view' = IF o.threw THEN view ELSE render(view, o.slot, app.byId)
          /\ app' = [app EXCEPT !.ev = Ev("remove", id)]
  /\ UNCHANGED <<hist, stack>>

\* click on #cart-clear
CartClickClear ==
  /\ app.page = "cart" /\ app.bound
  /\ LET o == clearCartOut(slot, FALSE)
     IN /\ Do("clearCart", "", Missing, << >>, FALSE, o)
        /\ other' = OtherTab(o)
        /\ badge' = Listener(badge, o)
        /\ view' = IF o.threw THEN view ELSE render(view, o.slot, app.byId)
        /\ app' = [app EXCEPT !.ev = Ev("clear", "")]
  /\ UNCHANGED <<hist, stack>>

\* -------- cart page load
\* Mutation: the handlers are bound before the catalog is awaited.
BindsAlways(ok) == TRUE

\* bootCartPage registers its input and click handlers after the await of
\* fetchProducts(): only when that did not throw.
BindsAfter(ok) == ok

ErrorView == [NoView EXCEPT !.state = "error"]

\* fetchProducts() resolved: byId is built and render() runs.
CartFetched ==
  /\ app.page = "cart" /\ app.stage = "pending"
  /\ \E byId \in Catalogs :
       /\ app' = [app EXCEPT !.stage = "done", !.byId = byId, !.bound = BindsAfter(TRUE)]
       /\ view' = render(view, slot, byId)
  /\ UNCHANGED <<slot, last, prev, badge, hist, stack, other>>

\* fetchProducts() threw: the list shows the error and the function returns.
CartFetchFailed ==
  /\ app.page = "cart" /\ app.stage = "pending"
  /\ app' = [app EXCEPT !.stage = "error", !.bound = BindsAfter(FALSE)]
  /\ view' = ErrorView
  /\ UNCHANGED <<slot, last, prev, badge, hist, stack, other>>

\* -------- product list page
\* Mutation: the click listener is registered at the top level and again
\* when the list controls are bound.
AddClickListenersTwice == Len(<<"top level", "bindListControls">>)

\* The click listeners for .add-to-cart the module registers: one, at its
\* top level.
AddClickListeners == 1

\* What n listeners do with one click: each calls addToCart(id, 1).
RECURSIVE RunAddListeners(_, _, _)
RunAddListeners(s, id, n) ==
  IF n = 0 THEN Out(s, FALSE, UndefinedV, 0, 0)
  ELSE LET r == RunAddListeners(s, id, n - 1)
           o == addToCartOut(r.slot, id, QArg("num", 1), FALSE)
       IN [o EXCEPT !.writes = @ + r.writes, !.events = @ + r.events]

ListFetched ==
  /\ app.page = "list" /\ app.stage = "pending"
  /\ \E byId \in Catalogs : app' = [app EXCEPT !.stage = "done", !.byId = byId]
  /\ UNCHANGED <<slot, last, prev, badge, view, hist, stack, other>>

ListFetchFailed ==
  /\ app.page = "list" /\ app.stage = "pending"
  /\ app' = [app EXCEPT !.stage = "error"]
  /\ view' = ErrorView
  /\ UNCHANGED <<slot, last, prev, badge, hist, stack, other>>

\* click on an Add to cart button of a rendered product: addToCart(id, 1),
\* then updateCartBadge(getCartCount()).
ListClickAdd ==
  /\ app.page = "list" /\ app.stage = "done"
  /\ \E id \in app.byId.ids :
       LET o == RunAddListeners(slot, id, AddClickListeners)
           c == getCartCountOut(o.slot)
       IN /\ InRange(o.slot)
          /\ Do("addToCart", id, QArg("num", 1), << >>, FALSE, o)
          /\ other' = OtherTab(o)
          /\ badge' = IF o.threw \/ c.threw THEN Listener(badge, o)
                       ELSE updateCartBadge(c.ret)
          /\ app' = [app EXCEPT !.ev = Ev("add", id)]
  /\ UNCHANGED <<view, hist, stack>>

\* -------- product detail page
Sizes == {"S", "M"}
NoSize == "none"

\* Mutation: the size check is skipped.
SizeMissingNever(chosen) == FALSE

\* const chosen = root.querySelector("input[name='size']:checked")?.value;
\* if (!chosen) ...
SizeMissing(chosen) == chosen = NoSize

\* The product of the URL was fetched: the page is rendered and the button
\* gets its click handler.
ProductFetched ==
  /\ app.page = "product" /\ app.stage = "pending"
  /\ \E p \in Products :
       app' = [app EXCEPT !.stage = "done", !.product = p, !.bound = TRUE]
  /\ UNCHANGED <<slot, last, prev, badge, view, hist, stack, other>>

ProductFetchFailed ==
  /\ app.page = "product" /\ app.stage = "pending"
  /\ app' = [app EXCEPT !.stage = "error"]
  /\ view' = ErrorView
  /\ UNCHANGED <<slot, last, prev, badge, hist, stack, other>>

\* click on Add to cart: without a checked size the message is shown, with
\* one addToCart(p.id, 1) and updateCartBadge(getCartCount()).
ProductClickAdd ==
  /\ app.page = "product" /\ app.bound
  /\ \E chosen \in Sizes \cup {NoSize} :
       IF SizeMissing(chosen)
       THEN /\ app' = [app EXCEPT !.error = TRUE,
                                   !.ev = Ev(IF chosen = NoSize THEN "nosize" ELSE chosen,
                                             app.product)]
            /\ last' = NoCall(slot)
            /\ prev' = Before(last)
            /\ UNCHANGED <<slot, badge, other>>
       ELSE LET o == addToCartOut(slot, app.product, QArg("num", 1), FALSE)
                c == getCartCountOut(o.slot)
            IN /\ InRange(o.slot)
               /\ Do("addToCart", app.product, QArg("num", 1), << >>, FALSE, o)
               /\ other' = OtherTab(o)
               /\ badge' = IF o.threw \/ c.threw THEN Listener(badge, o)
                            ELSE updateCartBadge(c.ret)
               /\ app' = [app EXCEPT !.error = FALSE,
                                      !.ev = Ev(IF chosen = NoSize THEN "nosize" ELSE chosen,
                                                app.product)]
  /\ UNCHANGED <<view, hist, stack>>

\* -------- checkout page
\* The summary built when fetchProducts() resolves, from the items read at
\* page load.
checkoutSummary(items, byId) == Summary(Project(items, byId))

CheckoutFetched ==
  /\ app.page = "checkout" /\ app.stage = "pending"
  /\ \E byId \in Catalogs :
       /\ view' = checkoutSummary(app.items.items, byId)
       /\ app' = [app EXCEPT !.stage = "done", !.byId = byId]
  /\ UNCHANGED <<slot, last, prev, badge, hist, stack, other>>

\* fetchProducts() rejected: the promise has no catch, nothing is rendered.
CheckoutFetchFailed ==
  /\ app.page = "checkout" /\ app.stage = "pending"
  /\ app' = [app EXCEPT !.stage = "error"]
  /\ UNCHANGED <<slot, last, prev, badge, view, hist, stack, other>>

\* Mutation: a submit that fails validation goes on to place the order.
SubmitStopsNever(valid) == FALSE

\* if (!form.checkValidity()) { ...; return; }
SubmitStops(valid) == ~valid

\* submit of the checkout form: an invalid form shows the error, a valid
\* one clears the cart and shows the thank-you notice.
CheckoutSubmit ==
  /\ app.page = "checkout" /\ app.bound /\ ~app.placed
  /\ \E valid \in BOOLEAN :
       IF ~SubmitStops(valid)
       THEN LET o == clearCartOut(slot, FALSE)
            IN /\ Do("clearCart", "", Missing, << >>, FALSE, o)
               /\ other' = OtherTab(o)
               /\ badge' = Listener(badge, o)
               /\ app' = [app EXCEPT !.placed = ~o.threw, !.error = FALSE,
                                      !.ev = Ev(IF valid THEN "submit" ELSE "invalid", "")]
       ELSE /\ app' = [app EXCEPT !.error = TRUE, !.ev = Ev("invalid", "")]
            /\ last' = NoCall(slot)
            /\ prev' = Before(last)
            /\ UNCHANGED <<slot, badge, other>>
  /\ UNCHANGED <<view, hist, stack>>

\* -------- page load
\* Carts the pages themselves leave in the slot.
AppSlots ==
  {Absent, Json(ArrayV(<< >>)), Json(ArrayV(<<Line("A", 1)>>)),
   Json(ArrayV(<<Line("B", 2), Line("A", 1)>>))}

\* items.length of the value getCart() returned.
HasLength(v) == v.t = "array" /\ v.items # << >>

\* The page of a tab right after its scripts ran on the cart in s: the cart,
\* list and product pages wait for their fetch; the checkout page has read
\* the cart and, unless it is empty, has registered its submit handler and
\* waits for the catalog; with an empty cart it has disabled the submit
\* button and returned.
Boot(page, s) ==
  IF page = "checkout"
  THEN IF HasLength(getCart(s))
       THEN [app |-> App("checkout", getCart(s), "pending", TRUE, 1), view |-> NoView]
       ELSE [app |-> [App("checkout", getCart(s), "empty", FALSE, 0)
                        EXCEPT !.disabled = TRUE],
             view |-> EmptyView]
  ELSE [app |-> App(page, NullV, "pending", FALSE, 1), view |-> NoView]
Pages == {"cart", "list", "product", "checkout"}

AppInit ==
  /\ slot \in AppSlots
  /\ last = NoCall(slot)
  /\ prev = Before(NoCall(slot))
  /\ badge = OnCartUpdated(NoBadge, slot)
  /\ hist = NoHist
  /\ stack = << >>
  /\ other = NoOther
  /\ \E page \in Pages :
       /\ app = Boot(page, slot).app
       /\ view = Boot(page, slot).view

AppNext ==
  \/ CartFetched
  \/ CartFetchFailed
  \/ CartClickQty
  \/ CartInputQty
  \/ CartClickRemove
  \/ CartClickClear
  \/ ListFetched
  \/ ListFetchFailed
  \/ ListClickAdd
  \/ ProductFetched
  \/ ProductFetchFailed
  \/ ProductClickAdd
  \/ CheckoutFetched
  \/ CheckoutFetchFailed
  \/ CheckoutSubmit

AppSpec == AppInit /\ [][AppNext]_vars

\* ------------------------------------------------------------- two tabs
\* Two tabs of one browser on the same origin share the slot; app, badge and
\* view are those of the tab the user is in, other holds the tab left behind.
ThisTab == 3 - other.tab

\* The user goes to the other tab.
TabSwitch ==
  /\ other.tab # 0
  /\ app' = other.app
  /\ badge' = other.badge
  /\ view' = other.view
  /\ other' = [tab |-> ThisTab, app |-> app, badge |-> badge, view |-> view]
  /\ UNCHANGED <<slot, last, prev, hist, stack>>

\* The user reloads the tab: the module runs again on the slot as it is now.
TabReload ==
  /\ other.tab # 0
  /\ app.stage # "pending"
  /\ app' = Boot(app.page, slot).app
  /\ view' = Boot(app.page, slot).view
  /\ badge' = OnCartUpdated(NoBadge, slot)
  /\ UNCHANGED <<slot, last, prev, hist, stack, other>>

TabSlots == {Json(ArrayV(<<Line("A", 1)>>))}

\* Tab 1 has loaded the cart page, tab 2 the product list, both on the same
\* cart.
TabInit ==
  /\ slot \in TabSlots
  /\ last = NoCall(slot)
  /\ prev = Before(NoCall(slot))
  /\ badge = OnCartUpdated(NoBadge, slot)
  /\ hist = NoHist
  /\ stack = << >>
  /\ app = Boot("cart", slot).app
  /\ view = Boot("cart", slot).view
  /\ other = [tab |-> 2, app |-> Boot("list", slot).app,
              badge |-> OnCartUpdated(NoBadge, slot), view |-> Boot("list", slot).view]

TabNext ==
  \/ CartFetched
  \/ CartClickQty
  \/ CartClickRemove
  \/ CartClickClear
  \/ ListFetched
  \/ ListClickAdd
  \/ TabSwitch
  \/ TabReload

TabSpec == TabInit /\ [][TabNext]_vars

\* ------------------------------------------------------- order of calls
\* The record of addToCart calls kept beside the store: first is the order
\* in which each product was first added, since the order in which each
\* product was first added after the last call that removed its line.
Track(h, c) ==
  IF c.threw THEN h
  ELSE IF c.op = "addToCart"
  THEN [first |-> IF \E k \in 1..Len(h.first) : h.first[k] = c.id
                  THEN h.first ELSE Append(h.first, c.id),
        since |-> IF \E k \in 1..Len(h.since) : h.since[k] = c.id
                  THEN h.since ELSE Append(h.since, c.id)]
  ELSE IF c.op = "removeFromCart"
  THEN [h EXCEPT !.since = SelectSeq(h.since, LAMBDA p : p # c.id)]
  ELSE IF c.op = "clearCart"
  THEN [h EXCEPT !.since = << >>]
  ELSE h

OrderNext ==
  /\ \/ AddToCart({FALSE})
     \/ SetCartQty({FALSE})
     \/ RemoveFromCart({FALSE})
     \/ ClearCart({FALSE})
  /\ hist' = Track(hist, last')
  /\ UNCHANGED <<app, badge, view, stack, other>>

OrderSpec == InitEmpty /\ [][OrderNext]_vars

\* ------------------------------------------------------ steps of a call
\* The store's exported functions, and those that write.
StoreOps ==
  {"getCart", "getCartCount", "addToCart", "setCartQty", "removeFromCart", "clearCart"}
Mutators == {"addToCart", "setCartQty", "removeFromCart", "clearCart"}

\* The call stack of the tab's single thread.  A frame is a store function or
\* the "cart:updated" listener; read is the slot a store function got from
\* getCart(), pc its position, k the listener's next call, ret what its last
\* call returned.
MaxDepth == 4
Frame(op, id, arg, pc) ==
  [op |-> op, id |-> id, arg |-> arg, pc |-> pc, read |-> Absent, k |-> 1,
   ret |-> UndefinedV]
Top == stack[Len(stack)]
Pop == SubSeq(stack, 1, Len(stack) - 1)
SetTop(f) == [stack EXCEPT ![Len(stack)] = f]

\* Mutation: the listener also empties the cart.
ListenerCallsClearCart == <<"getCartCount", "clearCart">>

\* The store functions the listener's body calls, in order:
\* () => updateCartBadge(getCartCount())
ListenerCalls == <<"getCartCount">>

\* What a mutator does with the cart it read.
OutOf(f) ==
  IF f.op = "addToCart" THEN addToCartOut(f.read, f.id, f.arg, FALSE)
  ELSE IF f.op = "setCartQty" THEN setCartQtyOut(f.read, f.id, f.arg, FALSE)
  ELSE IF f.op = "removeFromCart" THEN removeFromCartOut(f.read, f.id, FALSE)
  ELSE clearCartOut(f.read, FALSE)

\* An event handler, with nothing else running, calls a store function.
StepCall ==
  /\ stack = << >>
  /\ \/ \E p \in Products, arg \in AddArgs :
          stack' = <<Frame("addToCart", p, arg, "read")>>
     \/ \E p \in Products, arg \in SetArgs :
          stack' = <<Frame("setCartQty", p, arg, "read")>>
     \/ \E p \in Products :
          stack' = <<Frame("removeFromCart", p, Missing, "read")>>
     \/ \E op \in {"clearCart", "getCartCount", "getCart"} :
          stack' = <<Frame(op, "", Missing, "read")>>
  /\ UNCHANGED <<slot, last, prev, app, badge, view, hist, other>>

\* getCart() / getCartCount(): read and return to the caller, if any.
StepReadOnly ==
  /\ stack # << >> /\ Top.pc = "read" /\ Top.op \in {"getCart", "getCartCount"}
  /\ LET o == IF Top.op = "getCart" THEN getCartOut(slot) ELSE getCartCountOut(slot)
     IN stack' = IF Len(stack) = 1 THEN << >>
                 ELSE IF o.threw THEN SubSeq(stack, 1, Len(stack) - 2)
                 ELSE [Pop EXCEPT ![Len(stack) - 1].ret = o.ret]
  /\ UNCHANGED <<slot, last, prev, app, badge, view, hist, other>>

\* A mutator reads the cart (clearCart reads nothing).
StepRead ==
  /\ stack # << >> /\ Top.pc = "read" /\ Top.op \in Mutators
  /\ stack' = SetTop([Top EXCEPT !.read = slot, !.pc = "write"])
  /\ UNCHANGED <<slot, last, prev, app, badge, view, hist, other>>

\* The mutator computes the new lines from what it read and stores them, or
\* returns without storing (setCartQty on an absent line).
StepWrite ==
  /\ stack # << >> /\ Top.pc = "write"
  /\ LET o == OutOf(Top)
     IN /\ InRange(o.slot)
        /\ IF o.threw \/ o.writes = 0
           THEN stack' = Pop /\ slot' = slot
           ELSE stack' = SetTop([Top EXCEPT !.pc = "dispatch"]) /\ slot' = o.slot
  /\ UNCHANGED <<last, prev, app, badge, view, hist, other>>

\* window.dispatchEvent: the listener runs before dispatchEvent returns.
StepDispatch ==
  /\ stack # << >> /\ Top.pc = "dispatch"
  /\ Len(stack) < MaxDepth
  /\ stack' = IF app.listening
               THEN Append(SetTop([Top EXCEPT !.pc = "return"]),
                           Frame("listener", "", Missing, "call"))
               ELSE SetTop([Top EXCEPT !.pc = "return"])
  /\ UNCHANGED <<slot, last, prev, app, badge, view, hist, other>>

\* The listener makes its next call, or having made them all sets the badge
\* and returns.
StepListener ==
  /\ stack # << >> /\ Top.op = "listener"
  /\ IF Top.k <= Len(ListenerCalls)
     THEN /\ Len(stack) < MaxDepth
          /\ stack' = Append(SetTop([Top EXCEPT !.k = @ + 1]),
                              Frame(ListenerCalls[Top.k], "", Missing, "read"))
          /\ badge' = badge
     ELSE /\ stack' = Pop
          /\ badge' = updateCartBadge(Top.ret)
  /\ UNCHANGED <<slot, last, prev, app, view, hist, other>>

StepReturn ==
  /\ stack # << >> /\ Top.pc = "return"
  /\ stack' = Pop
  /\ UNCHANGED <<slot, last, prev, app, badge, view, hist, other>>

StepInit ==
  /\ slot = Absent
  /\ last = NoCall(slot)
  /\ prev = Before(NoCall(slot))
  /\ app = [App("list", NullV, "done", FALSE, 1) EXCEPT !.byId = Catalog(Products, Prices)]
  /\ badge = OnCartUpdated(NoBadge, slot)
  /\ view = NoView
  /\ hist = NoHist
  /\ stack = << >>
  /\ other = NoOther

StepNext ==
  \/ StepCall
  \/ StepReadOnly
  \/ StepRead
  \/ StepWrite
  \/ StepDispatch
  \/ StepListener
  \/ StepReturn

StepSpec == StepInit /\ [][StepNext]_vars

\* ------------------------------------------------------------- vocabulary
\* The cart a call reads from slot s is an array holding nothing but lines.
IsCart(s) ==
  /\ getCart(s).t = "array"
  /\ \A i \in 1..Len(getCart(s).items) : getCart(s).items[i].t = "line"

\* The blob in s is itself a well-formed sequence of lines.
WellFormedBlob(s) == s.kind = "json" /\ IsCart(s)

IdxOf(s, p) == {i \in 1..Len(LinesOf(s)) : Matches(LinesOf(s)[i], p)}
HasLine(s, p) == IdxOf(s, p) # {}
QtyOf(s, p) ==
  IF HasLine(s, p) THEN LinesOf(s)[CHOOSE i \in IdxOf(s, p) : TRUE].qty ELSE 0
UniqueIds(s) == \A p \in Products : Cardinality(IdxOf(s, p)) <= 1
EmptyCart == ArrayV(<< >>)

\* ------------------------------------------------------------------ claims

\* C1: starting from an empty persisted cart, after any sequence of
\* addToCart, setCartQty, removeFromCart and clearCart calls every line of
\* the persisted cart has quantity >= 1.
C1_QuantityFloor ==
  \A i \in 1..Len(LinesOf(slot)) : LinesOf(slot)[i].qty >= 1

\* C2: after any sequence of store operations, a direct saveCart(items)
\* included, the persisted cart holds at most one line per product id.
C2_KeyUnique == UniqueIds(slot)

\* C3: whatever the slot holds, none of getCart, getCartCount, addToCart,
\* setCartQty, removeFromCart and clearCart raises an exception.
C3_NeverThrows == last.op \in StoreOps => ~last.threw

\* C4: when the blob is absent, unparsable or not a well-formed sequence of
\* lines, getCart() returns the empty cart and raises nothing.
C4_FailsClosed ==
  (last.op = "getCart" /\ ~WellFormedBlob(last.pre)) =>
    (~last.threw /\ last.ret = EmptyCart)

\* C5: when the storage rejects the write made by saveCart, addToCart,
\* setCartQty, removeFromCart and clearCart still return normally.
C5_WriteFailureSwallowed ==
  (last.op \in Mutators /\ last.fail /\ last.writes = 1) => ~last.threw

\* C6: on a cart with unique ids, addToCart(P, a) followed by addToCart(P, b)
\* with a, b >= 1 leaves exactly one line for P, whose quantity is a + b more
\* than the quantity P had before (0 when P had no line).
C6_MergeAccumulation ==
  [][ ( /\ last.op = "addToCart" /\ last'.op = "addToCart"
        /\ last'.id = last.id
        /\ IsCart(last.pre) /\ UniqueIds(last.pre)
        /\ DefaultQty(last.arg) >= 1 /\ DefaultQty(last'.arg) >= 1 )
      => ( /\ ~last.threw /\ ~last'.threw
           /\ Cardinality(IdxOf(slot', last.id)) = 1
           /\ QtyOf(slot', last.id)
                = QtyOf(last.pre, last.id) + DefaultQty(last.arg) + DefaultQty(last'.arg)
           /\ Len(LinesOf(slot'))
                = Len(LinesOf(last.pre)) + (IF HasLine(last.pre, last.id) THEN 0 ELSE 1) )
    ]_vars

C6_Witness ==
  /\ prev = [op |-> "addToCart", id |-> "A"]
  /\ last.op = "addToCart" /\ last.id = "A" /\ ~last.threw
  /\ last.arg = QArg("num", 1)
  /\ QtyOf(last.pre, "A") = 2
  /\ LinesOf(slot) = <<Line("B", 2), Line("A", 3)>>

\* C7: on an existing line P, setCartQty(P, q) sets the quantity to exactly 1
\* for every q that is <= 0, non-numeric or missing, and to exactly q for an
\* integer q >= 1.
C7_SetQtyFloor ==
  (last.op = "setCartQty" /\ IsCart(last.pre) /\ HasLine(last.pre, last.id)) =>
    /\ ~last.threw
    /\ HasLine(slot, last.id)
    /\ (last.arg.t = "num" /\ last.arg.n >= 1) => QtyOf(slot, last.id) = last.arg.n
    /\ (last.arg.t = "num" /\ last.arg.n <= 0) => QtyOf(slot, last.id) = 1
    /\ last.arg.t \in {"undefined", "null", "text"} => QtyOf(slot, last.id) = 1

C7_Witness ==
  /\ last.op = "setCartQty" /\ last.id = "A"
  /\ last.arg = QArg("text", 0)
  /\ QtyOf(last.pre, "A") = 3
  /\ QtyOf(slot, "A") = 1

\* C8: setCartQty(P, q) on a cart with no line for P creates no line, leaves
\* the slot as it was, writes nothing and dispatches no event; no operation
\* other than addToCart ever brings a new product id into the cart.
C8_SetQtyAbsentNoOp ==
  /\ (last.op = "setCartQty" /\ ~HasLine(last.pre, last.id)) =>
       /\ slot = last.pre
       /\ ~HasLine(slot, last.id)
       /\ last.writes = 0
       /\ last.events = 0
  /\ last.op \in (StoreOps \ {"addToCart"}) =>
       \A p \in Products : HasLine(slot, p) => HasLine(last.pre, p)

C8_Witness ==
  /\ last.op = "setCartQty" /\ last.id = "B"
  /\ last.arg = QArg("num", 2)
  /\ LinesOf(last.pre) = <<Line("A", 2)>>
  /\ slot = last.pre
  /\ ~last.threw

\* C9: after removeFromCart(P) the cart has no line with id P and every other
\* line keeps its quantity and its place; a second removeFromCart(P) leaves
\* the slot as it was and raises nothing.
C9_RemovalTotal ==
  /\ (last.op = "removeFromCart" /\ IsCart(last.pre)) =>
       /\ ~last.threw
       /\ IsCart(slot)
       /\ ~HasLine(slot, last.id)
       /\ LET old == LinesOf(last.pre)
              k == IF HasLine(last.pre, last.id)
                   THEN CHOOSE i \in IdxOf(last.pre, last.id) : TRUE ELSE 0
          IN LinesOf(slot) =
               IF k = 0 THEN old
               ELSE SubSeq(old, 1, k - 1) \o SubSeq(old, k + 1, Len(old))
  /\ ( /\ prev = [op |-> "removeFromCart", id |-> last.id]
       /\ last.op = "removeFromCart" /\ IsCart(last.pre) ) =>
       (slot = last.pre /\ ~last.threw)

C9_Witness ==
  /\ last.op = "removeFromCart" /\ last.id = "B"
  /\ LinesOf(last.pre) = <<Line("B", 2), Line("A", 1)>>
  /\ LinesOf(slot) = <<Line("A", 1)>>
  /\ ~last.threw

\* C10: from any slot content, corrupt or absent included, clearCart()
\* followed by getCart() yields the empty sequence, and a second clearCart()
\* yields the same empty cart.
C10_IdempotentClear ==
  /\ last.op = "clearCart" => (~last.threw /\ getCart(slot) = EmptyCart)
  /\ (prev.op = "clearCart" /\ last.op = "getCart") =>
       (~last.threw /\ last.ret = EmptyCart)
  /\ (prev.op = "clearCart" /\ last.op = "clearCart") =>
       (slot = last.pre /\ getCart(slot) = EmptyCart)

C10_Witness ==
  /\ last.op = "clearCart"
  /\ last.pre = Json(ObjectV)
  /\ ~last.threw
  /\ slot = Json(ArrayV(<< >>))
  /\ getCart(slot) = EmptyCart

\* C11: "cart:updated" is dispatched exactly once, after the write (its
\* listeners find the new content), by every addToCart, removeFromCart and
\* clearCart and by setCartQty on an existing line; getCart, getCartCount and
\* setCartQty on an absent line dispatch nothing.
Notified == ~last.threw /\ last.writes = 1 /\ last.events = 1 /\ last.seen = slot

C11_NotifyOnce ==
  /\ (last.op \in {"addToCart", "removeFromCart"} /\ IsCart(last.pre)) => Notified
  /\ last.op = "clearCart" => Notified
  /\ (last.op = "setCartQty" /\ IsCart(last.pre) /\ HasLine(last.pre, last.id)) =>
       Notified
  /\ last.op \in {"getCart", "getCartCount"} =>
       (last.events = 0 /\ last.writes = 0 /\ slot = last.pre)
  /\ (last.op = "setCartQty" /\ ~HasLine(last.pre, last.id)) => last.events = 0

C11_Witness ==
  /\ last.op = "removeFromCart" /\ last.id = "B"
  /\ LinesOf(last.pre) = <<Line("A", 2)>>
  /\ last.events = 1
  /\ last.seen = slot

\* Every element is an {id, qty} line with a number JSON can carry.
LinesOnly(items) == \A i \in 1..Len(items) : items[i].t = "line"

\* C12: for every sequence c of {id, qty} lines and every prior slot content,
\* saveCart(c) followed by getCart() returns c, line for line and in order,
\* and nothing else.
C12_SaveRoundTrip ==
  [][ /\ (last'.op = "saveCart" /\ LinesOnly(last'.items)) =>
           (~last'.threw /\ getCart(slot') = ArrayV(last'.items))
      /\ (last.op = "saveCart" /\ LinesOnly(last.items) /\ last'.op = "getCart") =>
           (~last'.threw /\ last'.ret = ArrayV(last.items))
    ]_vars

C12_Witness ==
  /\ last.op = "saveCart"
  /\ last.pre = Json(ObjectV)
  /\ last.items = <<Line("A", 2), Line("B", 1)>>
  /\ getCart(slot) = ArrayV(<<Line("A", 2), Line("B", 1)>>)

\* C13: getCartCount() returns the sum, over the products, of the quantity
\* the cart holds for each (0 for the empty cart).
RECURSIVE TotalOver(_, _)
TotalOver(s, ps) ==
  IF ps = {} THEN 0
  ELSE LET p == CHOOSE x \in ps : TRUE
       IN QtyOf(s, p) + TotalOver(s, ps \ {p})

C13_CountIsSum ==
  (last.op = "getCartCount" /\ IsCart(last.pre) /\ UniqueIds(last.pre)) =>
    /\ ~last.threw
    /\ last.ret = NumberV(TotalOver(last.pre, Products))
    /\ LinesOf(last.pre) = << >> => last.ret = NumberV(0)
    /\ slot = last.pre

C13_Witness ==
  /\ last.op = "getCartCount"
  /\ LinesOf(last.pre) = <<Line("B", 2), Line("A", 1)>>
  /\ last.ret = NumberV(3)


\* The cart lines a page projects: those of the store on the cart page, those
\* read at page load on the checkout page.
Shown == IF app.page = "cart" THEN LinesOf(slot) ELSE app.items.items
Rendered ==
  \/ app.page = "cart" /\ app.stage = "done"
  \/ app.page = "checkout" /\ app.stage = "done"
Kept(items, byId) == SelectSeq(items, LAMBDA e : e.id \in byId.ids)

\* C14: on the cart page and in the checkout summary, the projected items
\* are, in order, exactly the cart lines whose id is in the catalog snapshot,
\* each with the snapshot's unit price and lineTotal = price * quantity; a
\* line whose id is not in the snapshot yields no item, stays in the persisted
\* cart, and the projection step itself never changes the persisted cart.
C14_ProjectionDropRule ==
  /\ [](Rendered =>
         LET kept == Kept(Shown, app.byId)
         IN /\ Len(view.lines) = Len(kept)
            /\ \A k \in 1..Len(kept) :
                 /\ view.lines[k].id = kept[k].id
                 /\ view.lines[k].qty = kept[k].qty
                 /\ view.lines[k].price = app.byId.price[kept[k].id]
                 /\ view.lines[k].lineTotal = app.byId.price[kept[k].id] * kept[k].qty
            /\ \A p \in Products \ app.byId.ids :
                 \A k \in 1..Len(view.lines) : view.lines[k].id # p)
  /\ [][/\ (app.stage = "pending" /\ app'.stage = "done" => slot' = slot)
        /\ (app'.ev.kind \in {"plus", "minus", "input"} =>
              \A p \in Products \ app.byId.ids :
                 /\ HasLine(slot', p) = HasLine(slot, p)
                 /\ QtyOf(slot', p) = QtyOf(slot, p))]_vars

C14_Witness ==
  /\ app.page = "cart"
  /\ app.byId.ids = {"A"}
  /\ app.ev.kind = "plus"
  /\ LinesOf(slot) = <<Line("B", 2), Line("A", 2)>>
  /\ view.lines = <<Item("A", 2, 1999)>>

\* The lines a view shows, as cart lines.
ViewLines == [k \in 1..Len(view.lines) |-> Line(view.lines[k].id, view.lines[k].qty)]

RECURSIVE SumTo(_, _)
SumTo(lines, n) ==
  IF n = 0 THEN 0 ELSE lines[n].price * lines[n].qty + SumTo(lines, n - 1)
Cents(text) == IF text.neg THEN -(text.whole * 100 + text.frac)
               ELSE text.whole * 100 + text.frac

\* C16: wherever lines are rendered, the subtotal shown is the sum of the
\* lines' price * quantity, the tax shown is 0, and the total shown is
\* subtotal + tax, which is the subtotal; with no line to show all three
\* are 0; every amount has two fractional digits.
C16_AggregateCorrect ==
  /\ view.state = "lines" =>
       /\ view.lines # << >>
       /\ Cents(view.subtotal) = SumTo(view.lines, Len(view.lines))
       /\ Cents(view.tax) = 0
       /\ Cents(view.total) = Cents(view.subtotal) + Cents(view.tax)
       /\ view.total = view.subtotal
  /\ view.state = "empty" =>
       /\ view.lines = << >>
       /\ Cents(view.subtotal) = 0 /\ Cents(view.tax) = 0 /\ Cents(view.total) = 0
  /\ \A t \in {view.subtotal, view.tax, view.total} : t.frac \in 0..99

C16_Witness ==
  /\ app.page = "cart" /\ app.ev = Ev("plus", "A")
  /\ view.state = "lines"
  /\ ViewLines = <<Line("B", 2), Line("A", 2)>>
  /\ view.subtotal = [neg |-> FALSE, whole |-> 49, frac |-> 98]
  /\ view.total = view.subtotal

\* The badge the header shows for the cart in s.
BadgeOf(s) == [text |-> getCartCountOut(s).ret,
               hidden |-> getCartCountOut(s).ret.n <= 0]

C19_BadgeConsistent ==
  /\ ~getCartCountOut(slot).threw
  /\ badge.text = getCartCountOut(slot).ret
  /\ badge.text = NumberV(TotalOver(slot, Products))
  /\ badge.hidden <=> TotalOver(slot, Products) <= 0

C19_Witness ==
  /\ last.op = "clearCart"
  /\ QtyOf(last.pre, "A") > 0
  /\ badge = [text |-> NumberV(0), hidden |-> TRUE]

\* The cart before the last handler's store call, with the quantity of p set to q.
WithQty(s, p, q) ==
  [i \in 1..Len(LinesOf(s)) |->
     IF LinesOf(s)[i].id = p THEN Line(p, q) ELSE LinesOf(s)[i]]

\* C20: on the cart page '+' on a rendered line makes its stored quantity one
\* more, '-' makes it one less but not less than 1, both leave every other
\* line and the order as they were, and the set of lines shrinks only by
\* Remove or Clear.
C20_QuantityControls ==
  app.page = "cart" =>
    /\ app.ev.kind = "plus" =>
         /\ HasLine(last.pre, app.ev.id)
         /\ LinesOf(slot) = WithQty(last.pre, app.ev.id, QtyOf(last.pre, app.ev.id) + 1)
    /\ app.ev.kind = "minus" =>
         /\ HasLine(last.pre, app.ev.id)
         /\ QtyOf(slot, app.ev.id) >= 1
         /\ LinesOf(slot) =
              WithQty(last.pre, app.ev.id,
                      IF QtyOf(last.pre, app.ev.id) = 1 THEN 1
                      ELSE QtyOf(last.pre, app.ev.id) - 1)
    /\ app.ev.kind \notin {"remove", "clear"} =>
         \A p \in Products : HasLine(last.pre, p) => HasLine(slot, p)
    /\ app.ev.kind = "remove" =>
         \A p \in Products \ {app.ev.id} : QtyOf(slot, p) = QtyOf(last.pre, p)

C20_Witness ==
  /\ app.page = "cart"
  /\ app.ev = Ev("minus", "A")
  /\ last.pre = Json(ArrayV(<<Line("B", 2), Line("A", 1)>>))
  /\ slot = last.pre
  /\ last.writes = 1


\* The ids of a sequence of lines or items, in order.
Ids(items) == [k \in 1..Len(items) |-> items[k].id]

\* C15 as stated: the persisted cart's lines are in the order of each
\* product's first addToCart call.
C15_FirstAddOrder ==
  Ids(LinesOf(slot)) = SelectSeq(hist.first, LAMBDA p : HasLine(slot, p))

\* C15 amended: the projection's output order is the persisted cart's line
\* order, which is the order of each product's first addToCart call since its
\* line was last absent (never added, removed or cleared); a later setCartQty
\* or addToCart on an existing line changes no line's position, and a new
\* product is appended at the end.
C15_OrderPreserved ==
  /\ [](/\ Ids(LinesOf(slot)) = hist.since
        /\ \A byId \in Catalogs :
             /\ ~enrichLines(slot, byId).threw
             /\ Ids(enrichLines(slot, byId).lines) = Ids(Kept(LinesOf(slot), byId)))
  /\ [][/\ (last'.op = "setCartQty" /\ last' # last) =>
             Ids(LinesOf(slot')) = Ids(LinesOf(slot))
        /\ (last'.op = "addToCart" /\ last' # last /\ HasLine(slot, last'.id)) =>
             Ids(LinesOf(slot')) = Ids(LinesOf(slot))
        /\ (last'.op = "addToCart" /\ last' # last /\ ~HasLine(slot, last'.id)) =>
             Ids(LinesOf(slot')) = Append(Ids(LinesOf(slot)), last'.id)]_vars

C15_Witness ==
  /\ hist.first = <<"A", "B">>
  /\ hist.since = <<"B", "A">>
  /\ Ids(LinesOf(slot)) = <<"B", "A">>
  /\ last.op = "setCartQty" /\ last.id = "B" /\ last.writes = 1
  /\ Ids(enrichLines(slot, Catalog(Products, Prices)).lines) = <<"B", "A">>


\* The frames of mutating store functions on the stack.
MutatorFrames == {k \in 1..Len(stack) : stack[k].op \in Mutators}

\* C18: a mutating store function begins only when nothing is on the stack;
\* at most one is ever on the stack; between its read and its write nothing
\* else writes the slot; and what runs inside its dispatchEvent is the
\* listener and the listener's getCartCount, which only read.
C18_NoReentrantMutation ==
  /\ [](/\ Cardinality(MutatorFrames) <= 1
        /\ \A k \in MutatorFrames :
             /\ k = 1
             /\ stack[k].pc = "write" => k = Len(stack) /\ slot = stack[k].read
             /\ \A j \in (k + 1)..Len(stack) :
                  /\ stack[j].op \in {"listener", "getCartCount"}
                  /\ stack[k].pc = "return"
        /\ badge = BadgeOf(slot) \/ stack # << >>)
  /\ [][/\ (Len(stack') > Len(stack) /\ stack'[Len(stack')].op \in Mutators) =>
             stack = << >>
        /\ slot' # slot => (stack # << >> /\ Top.op \in Mutators /\ Top.pc = "write")
        /\ (stack # << >> /\ Top.op \in {"listener", "getCartCount", "getCart"}) =>
             slot' = slot]_vars

C18_Witness ==
  /\ Len(stack) = 3
  /\ stack[1].op = "addToCart" /\ stack[1].pc = "return"
  /\ stack[2].op = "listener"
  /\ stack[3].op = "getCartCount"
  /\ slot # stack[1].read
  /\ LinesOf(slot) = <<Line("B", 1), Line("A", 2)>>


\* The handler that ran last made no store call: nothing written, nothing
\* dispatched.
NoStoreCall == last.op = "none" /\ slot = last.pre /\ last.writes = 0 /\ last.events = 0

\* C21: on the checkout page a submit of an invalid form leaves the persisted
\* cart and the badge as they were, dispatches nothing and shows the error; a
\* submit of a valid form leaves getCart() empty after one write and one
\* notification and shows the thank-you notice; a page loaded on an empty cart
\* has its submit button disabled, no submit handler, has made no request and
\* never writes the cart.
C21_CheckoutSubmission ==
  /\ [](app.page = "checkout" =>
          /\ app.ev.kind = "invalid" =>
               NoStoreCall /\ app.error /\ ~app.placed
          /\ app.ev.kind = "submit" =>
               /\ last.op = "clearCart" /\ ~last.threw
               /\ last.writes = 1 /\ last.events = 1
               /\ getCart(slot) = EmptyCart
               /\ badge = BadgeOf(slot)
               /\ app.placed /\ ~app.error
          /\ app.stage = "empty" =>
               /\ app.disabled /\ ~app.bound /\ app.fetches = 0
               /\ app.ev.kind = "load" /\ NoStoreCall
               /\ view = EmptyView)
  /\ [][/\ (app'.page = "checkout" /\ app'.ev.kind = "invalid" /\ app'.stage = app.stage) =>
             slot' = slot /\ badge' = badge /\ view' = view
        /\ (app.page = "checkout" /\ app.stage = "empty") =>
             slot' = slot]_vars

C21_Witness ==
  /\ app.page = "checkout" /\ app.stage = "done"
  /\ app.ev.kind = "submit" /\ app.placed
  /\ prev.op = "none"
  /\ LinesOf(last.pre) = <<Line("B", 2), Line("A", 1)>>
  /\ getCart(slot) = EmptyCart

\* C22: when the cart page's catalog request fails the page shows the error,
\* has made that one request and makes no other, has none of its input and
\* click handlers, and from then on changes neither the persisted cart nor
\* the badge: no store call, no write, no notification.
C22_CartFetchFailure ==
  /\ [](app.page = "cart" /\ app.stage = "error" =>
          /\ view = ErrorView
          /\ ~app.bound
          /\ app.fetches = 1
          /\ app.ev.kind = "load"
          /\ NoStoreCall
          /\ badge = BadgeOf(slot))
  /\ [][/\ (app.page = "cart" /\ app.stage = "error") => UNCHANGED vars
        /\ (app.page = "cart" /\ app'.stage = "error") =>
             slot' = slot /\ last' = last /\ badge' = badge]_vars

C22_Witness ==
  /\ app.page = "cart" /\ app.stage = "error"
  /\ view.state = "error"
  /\ LinesOf(slot) = <<Line("B", 2), Line("A", 1)>>
  /\ badge.text = NumberV(3)

\* C23: on the product page a click on Add to cart with no size checked
\* changes neither the persisted cart nor the badge, dispatches nothing and
\* shows the message; with a size checked, whichever it is, the product's
\* line gets one more (a new line of quantity 1 is appended when there was
\* none), the other lines stay, and one notification is dispatched.
C23_ProductPageAdd ==
  /\ [](app.page = "product" =>
          /\ app.ev.kind = "nosize" => NoStoreCall /\ app.error
          /\ app.ev.kind \in Sizes =>
               /\ app.ev.id = app.product
               /\ last.op = "addToCart" /\ last.id = app.product
               /\ last.writes = 1 /\ last.events = 1
               /\ ~app.error
               /\ QtyOf(slot, app.product) = QtyOf(last.pre, app.product) + 1
               /\ LinesOf(slot) =
                    IF HasLine(last.pre, app.product)
                    THEN WithQty(last.pre, app.product, QtyOf(last.pre, app.product) + 1)
                    ELSE Append(LinesOf(last.pre), Line(app.product, 1))
               /\ badge = BadgeOf(slot))
  /\ [][(app'.page = "product" /\ app'.ev.kind = "nosize") =>
           slot' = slot /\ badge' = badge]_vars

C23_Witness ==
  /\ app.page = "product"
  /\ app.ev = Ev("M", "B")
  /\ LinesOf(last.pre) = <<Line("B", 2), Line("A", 1)>>
  /\ LinesOf(slot) = <<Line("B", 3), Line("A", 1)>>

\* C24: a click on an Add to cart button of the product list makes
\* getCartCount() one more: the clicked product's line gets one more or is
\* appended with quantity 1, every other line stays, and one write and one
\* notification happen.
C24_ListAddClick ==
  (app.page = "list" /\ app.ev.kind = "add") =>
    /\ last.op = "addToCart" /\ last.id = app.ev.id
    /\ last.writes = 1 /\ last.events = 1
    /\ TotalOver(slot, Products) = TotalOver(last.pre, Products) + 1
    /\ getCartCountOut(slot).ret = NumberV(getCartCountOut(last.pre).ret.n + 1)
    /\ LinesOf(slot) =
         IF HasLine(last.pre, app.ev.id)
         THEN WithQty(last.pre, app.ev.id, QtyOf(last.pre, app.ev.id) + 1)
         ELSE Append(LinesOf(last.pre), Line(app.ev.id, 1))
    /\ badge = BadgeOf(slot)

C24_Witness ==
  /\ app.page = "list"
  /\ app.ev = Ev("add", "B")
  /\ LinesOf(last.pre) = <<Line("A", 1)>>
  /\ LinesOf(slot) = <<Line("A", 1), Line("B", 1)>>
  /\ badge.text = NumberV(2)

\* The sum of the quantities the page shows.
RECURSIVE ShownQty(_)
ShownQty(n) == IF n = 0 THEN 0 ELSE view.lines[n].qty + ShownQty(n - 1)
\* The products with a line that the catalog of the page lacks.
Dropped == {p \in Products : HasLine(slot, p) /\ p \notin app.byId.ids}

\* C25 as stated: once the cart page has rendered, the badge count is the sum
\* of the rendered quantities, "Your cart is empty." appears only with a
\* badge count of 0, and every line the badge counts is rendered with its
\* controls.
C25_BadgeEqualsRendered ==
  (app.page = "cart" /\ app.stage = "done") =>
    /\ badge.text = NumberV(ShownQty(Len(view.lines)))
    /\ view.state = "empty" => badge.text = NumberV(0)
    /\ \A p \in Products :
         HasLine(slot, p) => \E k \in 1..Len(view.lines) : view.lines[k].id = p

\* C25 amended: once the cart page has rendered, the badge count is the sum
\* of the rendered quantities plus the quantities of the cart lines whose
\* product the fetched catalog lacks; "Your cart is empty." appears exactly
\* when no cart line has its product in the catalog; when every line's
\* product is in the catalog the badge equals the rendered sum and the empty
\* message implies a count of 0; every rendered line is removed, alone, by
\* its Remove control, while a line the projection dropped has no control.
C25_BadgeAndRendered ==
  (app.page = "cart" /\ app.stage = "done") =>
    /\ badge.text = NumberV(ShownQty(Len(view.lines)) + TotalOver(slot, Dropped))
    /\ view.state = "empty" <=> Kept(LinesOf(slot), app.byId) = << >>
    /\ view.state \in {"empty", "lines"}
    /\ Dropped = {} =>
         /\ badge.text = NumberV(ShownQty(Len(view.lines)))
         /\ view.state = "empty" => badge.text = NumberV(0)
    /\ \A k \in 1..Len(view.lines) :
         HasLine(slot, view.lines[k].id) /\ view.lines[k].id \notin Dropped
    /\ app.ev.kind = "remove" =>
         /\ HasLine(last.pre, app.ev.id) /\ ~HasLine(slot, app.ev.id)
         /\ LinesOf(slot) = Filter(LinesOf(last.pre), app.ev.id)
         /\ \A p \in Products \ {app.ev.id} : QtyOf(slot, p) = QtyOf(last.pre, p)

C25_Witness ==
  /\ app.page = "cart" /\ app.stage = "done"
  /\ app.ev = Ev("remove", "A")
  /\ app.byId.ids = {"A"}
  /\ LinesOf(slot) = <<Line("B", 2)>>
  /\ view.state = "empty"
  /\ badge = [text |-> NumberV(2), hidden |-> FALSE]


\* What the store function of call c writes when it reads the cart in s.
Written(c, s) == OutOf([op |-> c.op, id |-> c.id, arg |-> c.arg, read |-> s]).slot

\* C26: with two tabs on the shared slot, every write is what the store
\* function computes from the slot as it is when the function starts, so the
\* slot is always the last write; a tab's handler sets that tab's badge and,
\* on the cart page, its lines from the new slot, and leaves the other tab's
\* badge and rendered cart as they were; going to the other tab changes
\* nothing; a reload reads the slot again.
C26_TwoTabs ==
  /\ []((last.op \in Mutators /\ last.writes = 1) => slot = Written(last, last.pre))
  /\ [][/\ slot' # slot =>
             /\ last'.pre = slot
             /\ slot' = Written(last', slot)
             /\ other' = other
             /\ badge' = BadgeOf(slot')
             /\ app.page = "cart" => ViewLines' = Kept(LinesOf(slot'), app.byId)
        /\ other'.tab = other.tab => other' = other
        /\ other'.tab # other.tab =>
             /\ slot' = slot
             /\ other'.badge = badge /\ other'.view = view
             /\ badge' = other.badge /\ view' = other.view
        /\ (other'.tab = other.tab /\ app.stage # "pending" /\ app'.stage = "pending") =>
             slot' = slot /\ badge' = BadgeOf(slot)]_vars

C26_Witness ==
  /\ other.tab = 1 /\ other.app.page = "cart" /\ other.app.stage = "done"
  /\ app.page = "list" /\ app.ev = Ev("add", "B")
  /\ LinesOf(slot) = <<Line("A", 1), Line("B", 1)>>
  /\ badge.text = NumberV(2)
  /\ other.badge.text = NumberV(1)
  /\ other.app.byId.ids = Products
  /\ Len(other.view.lines) = 1

====
